---- MODULE Spec2Model ----
(***************************************************************************)
(* A model of the GLB optimization pipeline of src/src/utils/glbOptimizer.ts *)
(* (class GLBOptimizer): the format validator, the model inspector, the    *)
(* optimization passes and the two orchestrating entry points.             *)
(*                                                                         *)
(* Calls into libraries (the container codec, the glTF transforms, the     *)
(* canvas and image API) are modelled as operations that either succeed or *)
(* throw, chosen nondeterministically; what the repository's own code does *)
(* around them is translated statement by statement.                       *)
(***************************************************************************)
EXTENDS Integers, Sequences, FiniteSets, TLC

VARIABLES
    pc,         \* position of the running invocation
    flow,       \* which entry point / operation this behaviour exercises
    file,       \* bytes of the (first) input file
    texFiles,   \* sizes of the companion texture files (multi-file flow)
    settings,   \* OptimizationSettings
    decoded,    \* the Document as the codec decoded it, NoDoc before decode
    doc,        \* the Scene Document being rewritten, NoDoc before decode
    events,     \* what onProgress has been handed so far: <<percent, stage>>
    stats,      \* results of getModelStats: [original, optimized]
    texIdx,     \* loop position of optimizeExternalTextures
    thrown,     \* the error a catch block received ("none" when none)
    path,       \* "none", "normal" or "fallback": which code built the result
    result,     \* the value the invocation returned (when pc = "returned")
    raised,     \* the error the invocation raised (when pc = "raised")
    app,        \* the state of the application component (App.tsx)
    auth        \* the state of the authentication provider and its storage

vars == <<pc, flow, file, texFiles, settings, decoded, doc, events, stats,
          texIdx, thrown, path, result, raised, app, auth>>

----------------------------------------------------------------------------
(* Bounds of the model *)

\* longest input file, in bytes
MaxFileLen == 10
\* most primitives in a Document of the inspector's specification
MaxPrims == 2
\* most meshes in a Document of the inspector's specification
MaxMeshes == 2
\* largest vertex or index count of a primitive
MaxCount == 3
\* most textures in a Document of the texture specification
MaxTextures == 3
\* most material slots holding a texture, over the whole Document
MaxRefs == 2
\* most materials in a Document of the texture specification
MaxMaterials == 2
\* longest buffer of the validator's specification, in bytes
MaxHeaderBytes == 5
\* most optimizations started in one behaviour of the application
MaxOptimizations == 2

----------------------------------------------------------------------------
(* Small helpers *)

Null == "null"
NoDoc == [kind |-> "nodoc"]
NoResult == [kind |-> "noresult"]
NoStats == [kind |-> "nostats"]
NoApp == [kind |-> "noapp"]
NoAuth == [kind |-> "noauth"]

Min(a, b) == IF a <= b THEN a ELSE b
Max(a, b) == IF a >= b THEN a ELSE b

RECURSIVE SumSeq(_)
SumSeq(s) == IF s = <<>> THEN 0 ELSE Head(s) + SumSeq(Tail(s))

RECURSIVE Flatten(_)
Flatten(ss) == IF ss = <<>> THEN <<>> ELSE Head(ss) \o Flatten(Tail(ss))

SeqsUpTo(S, n) == UNION { [1..k -> S] : k \in 0..n }

\* Math.round(n / d) for d > 0: the nearest integer, halves towards +infinity
RoundDiv(n, d) == (2 * n + d) \div (2 * d)

----------------------------------------------------------------------------
(* Format validator: isValidGLB, glbOptimizer.ts 108-117 *)

\* the bytes of "glTF"; read little-endian they are 0x46546C67
MagicBytes == <<103, 108, 84, 70>>
GLBMagic == 1179937895

\* DataView.getUint32(0, true); the caller guarantees Len(b) >= 4
Uint32LE(b) == b[1] + 256 * b[2] + 65536 * b[3] + 16777216 * b[4]

\* faulty variant: the magic read big-endian
IsValidGLBBigEndian(b) ==
    IF Len(b) < 4 THEN FALSE
    ELSE b[4] + 256 * b[3] + 65536 * b[2] + 16777216 * b[1] = GLBMagic

\* getUint32 throws a RangeError on a view shorter than 4 bytes; the catch
\* returns false
IsValidGLB(b) ==
    IF Len(b) < 4 THEN FALSE
    ELSE Uint32LE(b) = GLBMagic

----------------------------------------------------------------------------
(* Settings *)

TextureQualities == {"high", "medium", "low"}

MkSettings(md, tq, en, lv) ==
    [meshDecimation |-> md, textureQuality |-> tq,
     dracoCompression |-> [enabled |-> en, level |-> lv]]

\* the settings the orchestration specification runs with: both sides of
\* every threshold the code compares meshDecimation and level against
PipelineSettings ==
    { MkSettings(md, tq, en, lv) :
        md \in {0, 1, 50, 51, 79, 80}, tq \in TextureQualities,
        en \in BOOLEAN, lv \in {5, 10} }

----------------------------------------------------------------------------
(* The Scene Document *)

\* what getAttribute('POSITION') and getIndices() stand for when the
\* primitive has no such accessor (null in the code)
NoAccessor == -1

\* A primitive: position is the POSITION accessor's count, indices the index
\* accessor's count, NoAccessor when the primitive has none.
Counts == 0..MaxCount
Primitives == [position : Counts \cup {NoAccessor},
               indices : Counts \cup {NoAccessor}]

SlotNames == {"baseColor", "normal", "metallicRoughness", "occlusion", "emissive"}

NoTextures == [s \in SlotNames |-> Null]

\* A texture: an identity, the image bytes (named by a token, Null when the
\* texture has no image) and the MIME type.
TexNames == <<"t1", "t2", "t3", "t4", "t5">>
MkTexture(i, img, mime) == [id |-> i, image |-> img, mime |-> mime]

\* transforms: the library transforms applied so far, in order;
\* draco: <<>>, or <<options>> once the compressor has been applied
MkDoc(sc, ms, mats, texs, an) ==
    [scenes |-> sc, meshes |-> ms, materials |-> mats, textures |-> texs,
     animations |-> an, transforms |-> <<>>, draco |-> <<>>]

TextureIds(d) == { d.textures[i].id : i \in DOMAIN d.textures }

MkTransform(n, a) == [name |-> n, arg |-> a]

\* document.transform(...ts) when it succeeds
ApplyTransforms(d, ts) == [d EXCEPT !.transforms = @ \o ts]

----------------------------------------------------------------------------
(* Model inspector: getModelStats, glbOptimizer.ts 198-235 *)

\* the primitives that reach the body of `if (position)`
WithPosition(d) ==
    SelectSeq(Flatten(d.meshes), LAMBDA p : p.position # NoAccessor)

TotalVertices(d) ==
    LET ps == WithPosition(d)
    IN  SumSeq([i \in DOMAIN ps |-> ps[i].position])

\* totalTriangles is a sum of count / 3 kept as a fraction; here in thirds.
\* (For at most two contributing primitives with counts up to 7 the double
\* sum floors to the same integer as the exact sum.)
TriangleThirds(d) ==
    LET ps == WithPosition(d)
    IN  SumSeq([i \in DOMAIN ps |->
                  IF ps[i].indices # NoAccessor THEN ps[i].indices
                  ELSE ps[i].position])

\* the triangle total of section 3 of the specification: each primitive's
\* quotient truncated before it is added
TotalTrianglesPerPrimitive(d) ==
    LET ps == WithPosition(d)
    IN  SumSeq([i \in DOMAIN ps |->
                  IF ps[i].indices # NoAccessor THEN ps[i].indices \div 3
                  ELSE ps[i].position \div 3])

\* Math.floor(totalTriangles)
TotalTriangles(d) == TriangleThirds(d) \div 3

GetModelStats(d) ==
    [scenes |-> d.scenes,
     meshes |-> Len(d.meshes),
     materials |-> Len(d.materials),
     textures |-> Len(d.textures),
     animations |-> d.animations,
     vertices |-> TotalVertices(d),
     triangles |-> TotalTriangles(d)]

----------------------------------------------------------------------------
(* Geometry pass: conservativeMeshOptimization, glbOptimizer.ts 119-145 *)

\* faulty variant: the requested percentage is not scaled by 0.7
SimplifyRatioUnscaled(md) == Max(300, 1000 - 10 * md)

\* Math.max(0.3, 1 - (meshDecimation / 100 * 0.7)), in thousandths
SimplifyRatio(md) == Max(300, 1000 - 7 * md)

\* faulty variant: the band takes in both of its ends
InBandInclusive(md) == md >= 0 /\ md <= 80

\* line 123
InBand(md) == md > 0 /\ md < 80

\* faulty variant: resample is pushed first
GeometryTransformsResampleFirst(s) ==
    << MkTransform("resample", 0) >>
    \o (IF InBand(s.meshDecimation)
        THEN << MkTransform("weld", 0),
                MkTransform("simplify", SimplifyRatio(s.meshDecimation)) >>
        ELSE <<>>)

\* lines 120-140: the list handed to document.transform
GeometryTransforms(s) ==
    (IF InBand(s.meshDecimation)
     THEN << MkTransform("weld", 0),
             MkTransform("simplify", SimplifyRatio(s.meshDecimation)) >>
     ELSE <<>>)
    \o << MkTransform("resample", 0) >>

\* the pass when document.transform succeeds
ConservativeMeshOptimization(d, s) == ApplyTransforms(d, GeometryTransforms(s))

----------------------------------------------------------------------------
(* Embedded-safe texture strategy: safeTextureOptimization, 147-176 *)

\* faulty variant: the emissive slot is not looked at
UsedTexturesNoEmissive(d) ==
    { d.materials[m][sl] : m \in DOMAIN d.materials,
                           sl \in SlotNames \ {"emissive"} } \ {Null}

\* the set built by the materials.forEach of lines 156-168
UsedTextures(d) ==
    { d.materials[m][sl] : m \in DOMAIN d.materials, sl \in SlotNames } \ {Null}

\* texture.dispose(): the texture leaves the Document and every reference
\* to it is dropped
Dispose(d, id) ==
    [d EXCEPT
       !.textures = SelectSeq(@, LAMBDA t : t.id # id),
       !.materials = [m \in DOMAIN @ |->
                        [sl \in SlotNames |->
                           IF @[m][sl] = id THEN Null ELSE @[m][sl]]]]

\* textures.forEach over the list taken at line 151
RECURSIVE DisposeUnused(_, _, _)
DisposeUnused(d, texs, used) ==
    IF texs = <<>> THEN d
    ELSE DisposeUnused(IF Head(texs).id \in used THEN d
                       ELSE Dispose(d, Head(texs).id),
                       Tail(texs), used)

SafeTextureOptimization(d) == DisposeUnused(d, d.textures, UsedTextures(d))

----------------------------------------------------------------------------
(* Compression pass: safeDracoCompression, glbOptimizer.ts 178-196 *)

\* faulty variant: the level is used as requested
DracoLevelUncapped(s) == s.dracoCompression.level

\* Math.min(settings.dracoCompression.level, 7)
DracoLevel(s) == Min(s.dracoCompression.level, 7)

\* faulty variant: one floor of 8 bits for every attribute class
DracoOptionsOneFloor(s) ==
    LET level == DracoLevel(s)
    IN  [quantizePosition |-> Max(8, 16 - level),
         quantizeNormal   |-> Max(8, 16 - level),
         quantizeTexcoord |-> Max(8, 16 - level),
         quantizeColor    |-> Max(8, 16 - level),
         quantizeGeneric  |-> Max(8, 16 - level)]

\* lines 185-189
DracoOptions(s) ==
    LET level == DracoLevel(s)
    IN  [quantizePosition |-> Max(10, 16 - level),
         quantizeNormal   |-> Max(8, 16 - level),
         quantizeTexcoord |-> Max(10, 16 - level),
         quantizeColor    |-> Max(8, 16 - level),
         quantizeGeneric  |-> Max(8, 16 - level)]

\* the pass when the compressor succeeds; when it throws, the catch of line
\* 192 swallows the error and the Document stays as it was
SafeDracoCompression(d, s) ==
    [ApplyTransforms(d, << MkTransform("draco", DracoLevel(s)) >>)
       EXCEPT !.draco = << DracoOptions(s) >>]

----------------------------------------------------------------------------
(* Final cleanup: document.transform(dedup(), prune()), lines 68-71, 371 *)

\* prune(): every property no scene reaches leaves the Document. Of the
\* model's properties these are the textures no material holds (a material
\* of the model is in use by a primitive, a mesh by a scene).
Prune(d) ==
    [d EXCEPT !.textures = SelectSeq(@, LAMBDA t : t.id \in UsedTextures(d))]

\* dedup() merges properties that are equal in content; the textures of the
\* model differ in their images, and nothing is merged
Dedup(d) == d

\* the cleanup when document.transform succeeds
Cleanup(d) ==
    Prune(Dedup(ApplyTransforms(d, << MkTransform("dedup", 0),
                                      MkTransform("prune", 0) >>)))

----------------------------------------------------------------------------
(* Inputs of the orchestration specification *)

Zeros(n) == [i \in 1..n |-> 0]
Prefix(b, n) == SubSeq(b, 1, n)

\* buffers that start like a container, cut at every length, and buffers
\* of four bytes and more that do not
InputFiles ==
    { Prefix(MagicBytes \o Zeros(MaxFileLen), n) : n \in 0..MaxFileLen }
    \cup { <<70, 84, 108, 103>> \o Zeros(n) : n \in 0..(MaxFileLen - 4) }

\* the text of a .gltf file, by length: empty, "{}", and longer
GltfFiles == { [i \in 1..n |-> 123] : n \in {0, 2, MaxFileLen} }

TextureFileSizes == { <<>>, <<3>>, <<1, 2>> }

\* what io.writeBinary may hand back: containers of several sizes, and
\* bytes that are no container
EncodeOutputs ==
    { MagicBytes \o Zeros(n) : n \in 0..(MaxFileLen - 3) }
    \cup { <<>>, Zeros(4) }

DocMinimal ==
    MkDoc(1, << << [position |-> 4, indices |-> 3] >> >>, <<>>, <<>>, 0)

DocTextured ==
    MkDoc(1,
          << << [position |-> 4, indices |-> 4] >>,
             << [position |-> 5, indices |-> NoAccessor],
                [position |-> NoAccessor, indices |-> 3] >> >>,
          << [NoTextures EXCEPT !["baseColor"] = "t1", !["normal"] = "t3"] >>,
          << MkTexture("t1", "png-1", "image/png"),
             MkTexture("t2", "png-2", "image/png"),
             MkTexture("t3", Null, "image/png") >>,
          1)

\* what the codec may decode an input into
SampleDocs == { DocMinimal, DocTextured }

----------------------------------------------------------------------------
(* Progress callbacks and results *)

Emit(ev, percent, stage) == Append(ev, <<percent, stage>>)

NAStats == [vertices |-> "N/A", triangles |-> "N/A", textures |-> "N/A"]

MkResult(blob, orig, opt, red, info) ==
    [optimizedBlob |-> blob,
     stats |-> [originalSize |-> orig, optimizedSize |-> opt, reduction |-> red],
     modelInfo |-> info]

\* lines 82-99: the result of the normal path of optimizeGLB
NormalResult(f, out, original, optimized) ==
    MkResult(out, Len(f), Len(out),
             RoundDiv((Len(f) - Len(out)) * 100, Len(f)),
             [original |-> original, optimized |-> optimized])

\* lines 259-268: reductionFactor, in thousandths
ReductionFactor(s) ==
    ((IF s.meshDecimation > 50 THEN 900 ELSE 1000)
     * (IF s.textureQuality = "low" THEN 950 ELSE 1000)) \div 1000

\* faulty variant: the size figure of the fallback grows instead of shrinking
FallbackSizeInflated(size, s) == (size * (2000 - ReductionFactor(s))) \div 1000

\* line 275: Math.floor(file.size * reductionFactor)
FallbackSize(size, s) == (size * ReductionFactor(s)) \div 1000

\* faulty variant: the bytes are cut down to the size figure
FallbackResultTruncated(f, s) ==
    MkResult(Prefix(f, FallbackSize(Len(f), s)), Len(f), FallbackSize(Len(f), s),
             RoundDiv(1000 - ReductionFactor(s), 10),
             [original |-> NAStats, optimized |-> NAStats])

\* lines 255-284: the result of safeFallbackOptimization
FallbackResult(f, s) ==
    MkResult(f, Len(f), FallbackSize(Len(f), s),
             RoundDiv(1000 - ReductionFactor(s), 10),
             [original |-> NAStats, optimized |-> NAStats])

\* lines 375-385: the result of optimizeGLTFWithTextures
MultiResult(f, tfs, out, info) ==
    LET orig == Len(f) + SumSeq(tfs)
    IN  MkResult(out, orig, Len(out),
                 RoundDiv((orig - Len(out)) * 100, orig), info)

----------------------------------------------------------------------------
(* Entry point A: optimizeGLB, glbOptimizer.ts 24-106 *)

\* what no step of the optimizer writes: its inputs, and the state of the
\* application around it
inputs == <<flow, file, texFiles, settings, app, auth>>

\* faulty variant: the catch of optimizeGLB rethrows, like the multi-file one
SingleCatchRethrows(e) ==
    /\ pc' = "raised"
    /\ thrown' = e
    /\ raised' = e

\* lines 101-105: the catch hands over to safeFallbackOptimization
SingleCatch(e) ==
    /\ pc' = "f_start"
    /\ thrown' = e
    /\ raised' = raised

\* faulty variant: the bytes go to the codec without the format check
S_LoadUnchecked ==
    /\ pc = "s_start"
    /\ events' = Emit(events, 10, "analyzing")
    /\ pc' = "s_decode"
    /\ UNCHANGED <<inputs, decoded, doc, stats, texIdx, thrown, path, result, raised>>

\* lines 32-39: first checkpoint, read, input format check
S_Load ==
    /\ pc = "s_start"
    /\ events' = Emit(events, 10, "analyzing")
    /\ IF IsValidGLB(file)
       THEN pc' = "s_decode" /\ UNCHANGED <<thrown, raised>>
       ELSE SingleCatch("InvalidFormat")
    /\ UNCHANGED <<inputs, decoded, doc, stats, texIdx, path, result>>

\* lines 41-45: decode, baseline statistics
S_Decode ==
    /\ pc = "s_decode"
    /\ \/ \E d \in SampleDocs :
            /\ doc' = d
            /\ decoded' = d
            /\ stats' = [stats EXCEPT !.original = GetModelStats(d)]
            /\ events' = Emit(events, 20, "analyzing")
            /\ pc' = "s_geometry"
            /\ UNCHANGED <<thrown, raised>>
       \/ /\ SingleCatch("DecodeError")
          /\ UNCHANGED <<decoded, doc, stats, events>>
    /\ UNCHANGED <<inputs, texIdx, path, result>>

\* lines 48-50: geometry pass between its two checkpoints
S_Geometry ==
    /\ pc = "s_geometry"
    /\ \/ /\ doc' = ConservativeMeshOptimization(doc, settings)
          /\ events' = Emit(Emit(events, 30, "optimizing"), 50, "optimizing")
          /\ pc' = "s_texture"
          /\ UNCHANGED <<thrown, raised>>
       \/ /\ events' = Emit(events, 30, "optimizing")
          /\ SingleCatch("GeometryFailure")
          /\ UNCHANGED doc
    /\ UNCHANGED <<inputs, decoded, stats, texIdx, path, result>>

\* lines 53-58: texture pass, skipped for textureQuality = 'high'
S_Texture ==
    /\ pc = "s_texture"
    /\ \/ /\ doc' = IF settings.textureQuality # "high"
                    THEN SafeTextureOptimization(doc) ELSE doc
          /\ events' = Emit(Emit(events, 60, "compressing"), 75, "compressing")
          /\ pc' = "s_draco"
          /\ UNCHANGED <<thrown, raised>>
       \/ /\ settings.textureQuality # "high"
          /\ events' = Emit(events, 60, "compressing")
          /\ SingleCatch("TextureFailure")
          /\ UNCHANGED doc
    /\ UNCHANGED <<inputs, decoded, stats, texIdx, path, result>>

\* faulty variant: a throwing compressor reaches the catch of optimizeGLB
S_DracoRethrows ==
    /\ pc = "s_draco"
    /\ IF settings.dracoCompression.enabled
       THEN /\ events' = Emit(events, 80, "compressing")
            /\ \/ /\ doc' = SafeDracoCompression(doc, settings)
                  /\ pc' = "s_cleanup"
                  /\ UNCHANGED <<thrown, raised>>
               \/ /\ SingleCatch("CompressionFailure")
                  /\ UNCHANGED doc
       ELSE /\ pc' = "s_cleanup"
            /\ UNCHANGED <<events, doc, thrown, raised>>
    /\ UNCHANGED <<inputs, decoded, stats, texIdx, path, result>>

\* faulty variant: the checkpoint of the compression pass is reported
\* whether or not the pass is enabled
S_DracoAlwaysReports ==
    /\ pc = "s_draco"
    /\ events' = Emit(events, 80, "compressing")
    /\ IF settings.dracoCompression.enabled
       THEN \/ doc' = SafeDracoCompression(doc, settings)
            \/ doc' = doc
       ELSE UNCHANGED doc
    /\ pc' = "s_cleanup"
    /\ UNCHANGED <<inputs, decoded, stats, texIdx, thrown, path, result, raised>>

\* lines 61-64: compression pass when enabled; a throwing compressor is
\* swallowed inside safeDracoCompression
S_Draco ==
    /\ pc = "s_draco"
    /\ IF settings.dracoCompression.enabled
       THEN /\ events' = Emit(events, 80, "compressing")
            /\ \/ doc' = SafeDracoCompression(doc, settings)
               \/ doc' = doc
       ELSE UNCHANGED <<events, doc>>
    /\ pc' = "s_cleanup"
    /\ UNCHANGED <<inputs, decoded, stats, texIdx, thrown, path, result, raised>>

\* lines 67-71: dedup and prune
S_Cleanup ==
    /\ pc = "s_cleanup"
    /\ events' = Emit(events, 90, "finalizing")
    /\ \/ /\ doc' = Cleanup(doc)
          /\ pc' = "s_encode"
          /\ UNCHANGED <<thrown, raised>>
       \/ /\ SingleCatch("CleanupFailure")
          /\ UNCHANGED doc
    /\ UNCHANGED <<inputs, decoded, stats, texIdx, path, result>>

\* faulty variant: the encoded bytes are returned without the check
OutputAcceptedUnchecked(out) == TRUE

\* lines 77-80: the output format check
OutputAccepted(out) == IsValidGLB(out)

\* lines 74-99: encode, output format check, final statistics, result
S_Encode ==
    /\ pc = "s_encode"
    /\ \/ \E out \in EncodeOutputs :
            IF OutputAccepted(out)
            THEN /\ stats' = [stats EXCEPT !.optimized = GetModelStats(doc)]
                 /\ events' = Emit(Emit(events, 95, "finalizing"), 100, "completed")
                 /\ result' = NormalResult(file, out, stats.original,
                                           GetModelStats(doc))
                 /\ path' = "normal"
                 /\ pc' = "returned"
                 /\ UNCHANGED <<thrown, raised>>
            ELSE /\ events' = Emit(events, 95, "finalizing")
                 /\ SingleCatch("InvalidOutput")
                 /\ UNCHANGED <<stats, result, path>>
       \/ /\ events' = Emit(events, 95, "finalizing")
          /\ SingleCatch("EncodeError")
          /\ UNCHANGED <<stats, result, path>>
    /\ UNCHANGED <<inputs, decoded, doc, texIdx>>

----------------------------------------------------------------------------
(* Safe Fallback: safeFallbackOptimization, glbOptimizer.ts 237-285 *)

\* one step per checkpoint and the delay that follows it
FallbackStep(from, to, percent, stage) ==
    /\ pc = from
    /\ events' = Emit(events, percent, stage)
    /\ pc' = to
    /\ UNCHANGED <<inputs, decoded, doc, stats, texIdx, thrown, path, result, raised>>

\* lines 243-244
F_Analyzing == FallbackStep("f_start", "f_optimizing", 25, "analyzing")
\* lines 246-247
F_Optimizing == FallbackStep("f_optimizing", "f_compressing", 50, "optimizing")
\* lines 249-250
F_Compressing == FallbackStep("f_compressing", "f_finalizing", 75, "compressing")
\* lines 252-253
F_Finalizing == FallbackStep("f_finalizing", "f_result", 100, "finalizing")

\* lines 255-284
F_Return ==
    /\ pc = "f_result"
    /\ result' = FallbackResult(file, settings)
    /\ path' = "fallback"
    /\ pc' = "returned"
    /\ UNCHANGED <<inputs, decoded, doc, events, stats, texIdx, thrown, raised>>

SingleFlow ==
    \/ S_Load \/ S_Decode \/ S_Geometry \/ S_Texture \/ S_Draco
    \/ S_Cleanup \/ S_Encode
    \/ F_Analyzing \/ F_Optimizing \/ F_Compressing \/ F_Finalizing \/ F_Return

----------------------------------------------------------------------------
(* External-texture strategy: optimizeExternalTextures, 393-439 *)

JpegOf(img) == "jpeg(" \o img \o ")"

\* lines 425-426: setImage and setMimeType on the texture at position i
ReplaceImage(d, i) ==
    [d EXCEPT !.textures[i] =
        [@ EXCEPT !.image = JpegOf(@), !.mime = "image/jpeg"]]

\* what one round of the loop can come to for a texture that has an image:
\*  "threw"     a call of lines 403-419 or canvas.toBlob throws (caught, 435);
\*              line 403 calls createElement on the pass's own parameter
\*              `document`, the Scene Document, so this is the outcome of
\*              every round whenever that object has no such method
\*  "noContext" getContext returns null (continue, 405)
\*  "nullBlob"  toBlob calls back with null (resolve, 430)
\*  "replaced"  the blob's bytes arrive (424-427)
\*  "pending"   compressedBlob.arrayBuffer() rejects, or the then-callback
\*              throws: neither resolve nor a rejection reaches the awaited
\*              promise of line 421
TextureOutcomes == {"threw", "noContext", "nullBlob", "replaced", "pending"}

\* one round of the for loop of line 398
X_Texture ==
    /\ pc = "x_textures"
    /\ texIdx <= Len(doc.textures)
    /\ IF doc.textures[texIdx].image = Null
       THEN /\ texIdx' = texIdx + 1
            /\ UNCHANGED <<pc, doc>>
       ELSE \E o \in TextureOutcomes :
              /\ doc' = IF o = "replaced" THEN ReplaceImage(doc, texIdx) ELSE doc
              /\ IF o = "pending"
                 THEN pc' = "x_awaiting" /\ UNCHANGED texIdx
                 ELSE texIdx' = texIdx + 1 /\ UNCHANGED pc
    /\ UNCHANGED <<inputs, decoded, events, stats, thrown, path, result, raised>>

\* the loop is over: the pass returns to line 365
X_Done ==
    /\ pc = "x_textures"
    /\ texIdx > Len(doc.textures)
    /\ pc' = "m_draco"
    /\ UNCHANGED <<inputs, decoded, doc, events, stats, texIdx, thrown, path, result, raised>>

----------------------------------------------------------------------------
(* Entry point B: optimizeGLTFWithTextures, glbOptimizer.ts 327-391 *)

\* faulty variant: the catch of the multi-file flow falls back like the single-file one
MultiCatchFallsBack(e) ==
    /\ pc' = "f_start"
    /\ thrown' = e
    /\ raised' = raised

\* lines 387-390: the catch logs and rethrows the error it received
MultiCatch(e) ==
    /\ pc' = "raised"
    /\ thrown' = e
    /\ raised' = e

\* lines 335-347: first checkpoint, read and parse the text, read the
\* texture files; JSON.parse throws on text that is no JSON value
M_Load ==
    /\ pc = "m_start"
    /\ events' = Emit(events, 10, "analyzing")
    /\ \/ /\ Len(file) >= 2
          /\ pc' = "m_decode"
          /\ UNCHANGED <<thrown, raised>>
       \/ MultiCatch("SyntaxError")
    /\ UNCHANGED <<inputs, decoded, doc, stats, texIdx, path, result>>

\* lines 350-355: decode with the external resources
M_Decode ==
    /\ pc = "m_decode"
    /\ \/ \E d \in SampleDocs :
            /\ doc' = d
            /\ decoded' = d
            /\ events' = Emit(events, 30, "optimizing")
            /\ pc' = "m_geometry"
            /\ UNCHANGED <<thrown, raised>>
       \/ /\ MultiCatch("DecodeError")
          /\ UNCHANGED <<decoded, doc, events>>
    /\ UNCHANGED <<inputs, stats, texIdx, path, result>>

\* lines 358-363: geometry pass, then the texture loop starts
M_Geometry ==
    /\ pc = "m_geometry"
    /\ \/ /\ doc' = ConservativeMeshOptimization(doc, settings)
          /\ events' = Emit(events, 60, "compressing")
          /\ pc' = "x_textures"
          /\ texIdx' = 1
          /\ UNCHANGED <<thrown, raised>>
       \/ /\ MultiCatch("GeometryFailure")
          /\ UNCHANGED <<doc, events, texIdx>>
    /\ UNCHANGED <<inputs, decoded, stats, path, result>>

\* lines 365-367
M_Draco ==
    /\ pc = "m_draco"
    /\ IF settings.dracoCompression.enabled
       THEN \/ doc' = SafeDracoCompression(doc, settings)
            \/ doc' = doc
       ELSE UNCHANGED doc
    /\ pc' = "m_cleanup"
    /\ UNCHANGED <<inputs, decoded, events, stats, texIdx, thrown, path, result, raised>>

\* lines 369-371
M_Cleanup ==
    /\ pc = "m_cleanup"
    /\ events' = Emit(events, 90, "finalizing")
    /\ \/ /\ doc' = Cleanup(doc)
          /\ pc' = "m_encode"
          /\ UNCHANGED <<thrown, raised>>
       \/ /\ MultiCatch("CleanupFailure")
          /\ UNCHANGED doc
    /\ UNCHANGED <<inputs, decoded, stats, texIdx, path, result>>

\* lines 374-385: encode and build the result; the bytes are not checked
M_Encode ==
    /\ pc = "m_encode"
    /\ \/ \E out \in EncodeOutputs :
            /\ events' = Emit(events, 100, "completed")
            /\ result' = MultiResult(file, texFiles, out, GetModelStats(doc))
            /\ path' = "normal"
            /\ pc' = "returned"
            /\ UNCHANGED <<thrown, raised>>
       \/ /\ MultiCatch("EncodeError")
          /\ UNCHANGED <<events, result, path>>
    /\ UNCHANGED <<inputs, decoded, doc, stats, texIdx>>

MultiFlow ==
    \/ M_Load \/ M_Decode \/ M_Geometry \/ X_Texture \/ X_Done
    \/ M_Draco \/ M_Cleanup \/ M_Encode

----------------------------------------------------------------------------
(* Analysis-only entry point: analyzeGLB, glbOptimizer.ts 302-324 *)

\* lines 316-322: the placeholder statistics, each drawn at random from its
\* range; here the two ends of each range
PlaceholderStats ==
    [vertices : {10000, 109999}, triangles : {5000, 54999},
     textures : {1, 10}, materials : {1, 5}, meshes : {1, 10}]

\* lines 314-323: the catch logs and returns placeholder statistics
AnalyzeCatch(e) ==
    /\ pc' = "a_catch"
    /\ thrown' = e

\* lines 304-310: read, input format check
A_Load ==
    /\ pc = "a_start"
    /\ IF IsValidGLB(file)
       THEN pc' = "a_decode" /\ UNCHANGED thrown
       ELSE AnalyzeCatch("InvalidFormat")
    /\ UNCHANGED <<inputs, decoded, doc, events, stats, texIdx, path, result, raised>>

\* lines 312-313: decode and inspect
A_Decode ==
    /\ pc = "a_decode"
    /\ \/ \E d \in SampleDocs :
            /\ doc' = d
            /\ decoded' = d
            /\ result' = [kind |-> "analysis", stats |-> GetModelStats(d)]
            /\ path' = "normal"
            /\ pc' = "returned"
            /\ UNCHANGED thrown
       \/ /\ AnalyzeCatch("DecodeError")
          /\ UNCHANGED <<decoded, doc, result, path>>
    /\ UNCHANGED <<inputs, events, stats, texIdx, raised>>

\* lines 314-323
A_Catch ==
    /\ pc = "a_catch"
    /\ \E st \in PlaceholderStats :
          result' = [kind |-> "analysis", stats |-> st]
    /\ path' = "placeholder"
    /\ pc' = "returned"
    /\ UNCHANGED <<inputs, decoded, doc, events, stats, texIdx, thrown, raised>>

AnalyzeFlow == A_Load \/ A_Decode \/ A_Catch

----------------------------------------------------------------------------
(* The orchestration specification: one invocation of either entry point *)

InitInvocation ==
    /\ decoded = NoDoc
    /\ doc = NoDoc
    /\ events = <<>>
    /\ stats = [original |-> NoStats, optimized |-> NoStats]
    /\ texIdx = 0
    /\ thrown = "none"
    /\ path = "none"
    /\ result = NoResult
    /\ raised = "none"
    /\ app = NoApp
    /\ auth = NoAuth

Init ==
    /\ settings \in PipelineSettings
    /\ \/ /\ flow = "single"
          /\ pc = "s_start"
          /\ file \in InputFiles
          /\ texFiles = <<>>
       \/ /\ flow = "multi"
          /\ pc = "m_start"
          /\ file \in GltfFiles
          /\ texFiles \in TextureFileSizes
       \/ /\ flow = "analyze"
          /\ pc = "a_start"
          /\ file \in InputFiles
          /\ texFiles = <<>>
    /\ InitInvocation

Next == SingleFlow \/ MultiFlow \/ AnalyzeFlow

Spec == Init /\ [][Next]_vars

Finished == pc \in {"returned", "raised"}

FallbackPcs ==
    {"f_start", "f_optimizing", "f_compressing", "f_finalizing", "f_result"}

SingleFlowErrors ==
    {"InvalidFormat", "DecodeError", "GeometryFailure", "TextureFailure",
     "CleanupFailure", "EncodeError", "InvalidOutput"}

MultiFlowErrors ==
    {"SyntaxError", "DecodeError", "GeometryFailure", "CleanupFailure",
     "EncodeError"}

----------------------------------------------------------------------------
(* Claims about the orchestration *)

C2_InvalidInputFallsBack ==
    (flow = "single" /\ ~IsValidGLB(file)) =>
        /\ pc # "raised"
        /\ pc = "returned" =>
              /\ DOMAIN result = {"optimizedBlob", "stats", "modelInfo"}
              /\ DOMAIN result.stats = {"originalSize", "optimizedSize", "reduction"}
              /\ DOMAIN result.modelInfo = {"original", "optimized"}
              /\ result.stats.originalSize = Len(file)
              /\ result.stats.optimizedSize >= 0
              /\ result.stats.optimizedSize <= result.stats.originalSize

\* C2 witness: a buffer of more than four bytes that is no container was
\* answered with a result whose size figure is below the original size
C2_Witness ==
    /\ flow = "single"
    /\ Len(file) > 4
    /\ ~IsValidGLB(file)
    /\ pc = "returned"
    /\ result.stats.optimizedSize < result.stats.originalSize

\* C3: when the input passes the format check, the bytes the single-file
\* flow returns pass it too, whichever step failed.
C3_ReturnedBytesAreValid ==
    (flow = "single" /\ IsValidGLB(file) /\ pc = "returned") =>
        /\ Len(result.optimizedBlob) >= 4
        /\ Uint32LE(result.optimizedBlob) = GLBMagic
        /\ thrown = "InvalidOutput" => result.optimizedBlob = file

\* C3 witness: the encoder produced bytes that fail the check and the
\* original bytes were returned in their place
C3_Witness ==
    /\ flow = "single"
    /\ IsValidGLB(file)
    /\ thrown = "InvalidOutput"
    /\ pc = "returned"
    /\ result.optimizedBlob = file

\* C4: in the multi-file flow an error of parsing, decode, the geometry
\* pass, cleanup or encode is raised to the caller as it was thrown; the
\* Safe Fallback never runs and no result is returned.
C4_MultiFlowPropagates ==
    flow = "multi" =>
        /\ pc \notin FallbackPcs
        /\ path # "fallback"
        /\ thrown # "none" =>
              /\ thrown \in MultiFlowErrors
              /\ pc = "raised"
              /\ raised = thrown
              /\ result = NoResult
        /\ pc = "returned" => (thrown = "none" /\ raised = "none")

\* C4 witness: the encoder threw after every pass had run and the caller
\* got that error
C4_Witness ==
    /\ flow = "multi"
    /\ pc = "raised"
    /\ raised = "EncodeError"
    /\ Len(doc.transforms) > 0

\* C5: within one single-file invocation the percentages handed to the
\* progress callback never decrease, on the fallback paths too.
C5_ProgressNonDecreasing ==
    flow = "single" =>
        \A i \in 1..(Len(events) - 1) : events[i][1] <= events[i + 1][1]

StageRank(st) ==
    CASE st = "idle" -> 0
      [] st = "analyzing" -> 1
      [] st = "optimizing" -> 2
      [] st = "compressing" -> 3
      [] st = "finalizing" -> 4
      [] st = "completed" -> 5

\* C6: within one single-file invocation no callback carries a stage
\* earlier than the stage of a callback before it, and an invocation that
\* has returned a result reported "completed" last.
C6_StagesFollowStateMachine ==
    flow = "single" =>
        /\ \A i \in 1..(Len(events) - 1) :
              StageRank(events[i][2]) <= StageRank(events[i + 1][2])
        /\ pc = "returned" => events[Len(events)][2] = "completed"

----------------------------------------------------------------------------
(* The inspector's specification: getModelStats on bounded Documents *)

\* ps cut into consecutive meshes of the given sizes
RECURSIVE SplitMeshes(_, _)
SplitMeshes(ps, sizes) ==
    IF sizes = <<>> THEN <<>>
    ELSE << SubSeq(ps, 1, Head(sizes)) >>
         \o SplitMeshes(SubSeq(ps, Head(sizes) + 1, Len(ps)), Tail(sizes))

\* the ways to give n primitives to at most m meshes, as mesh sizes
MeshSizes(n, m) == { sz \in SeqsUpTo(0..n, m) : SumSeq(sz) = n }

InitPass(f) ==
    /\ flow = f
    /\ file = <<>>
    /\ texFiles = <<>>
    /\ events = <<>>
    /\ stats = [original |-> NoStats, optimized |-> NoStats]
    /\ texIdx = 0
    /\ thrown = "none"
    /\ path = "none"
    /\ result = NoResult
    /\ raised = "none"
    /\ app = NoApp
    /\ auth = NoAuth

StatsInit ==
    /\ InitPass("inspect")
    /\ pc = "i_start"
    /\ settings = MkSettings(0, "high", FALSE, 1)
    /\ \E ps \in SeqsUpTo(Primitives, MaxPrims) :
         \E sz \in MeshSizes(Len(ps), MaxMeshes) :
            decoded = MkDoc(1, SplitMeshes(ps, sz), <<>>, <<>>, 0)
    /\ doc = decoded

\* faulty variant: the traversal detaches the meshes it has counted
I_InspectConsuming ==
    /\ pc = "i_start"
    /\ stats' = [stats EXCEPT !.original = GetModelStats(doc)]
    /\ doc' = [doc EXCEPT !.meshes = <<>>]
    /\ pc' = "i_inspected"
    /\ UNCHANGED <<inputs, decoded, events, texIdx, thrown, path, result, raised>>

\* a first call of getModelStats, as at line 44
I_Inspect ==
    /\ pc = "i_start"
    /\ stats' = [stats EXCEPT !.original = GetModelStats(doc)]
    /\ pc' = "i_inspected"
    /\ UNCHANGED <<inputs, decoded, doc, events, texIdx, thrown, path, result, raised>>

\* a second call on the same Document, as at line 85
I_InspectAgain ==
    /\ pc = "i_inspected"
    /\ stats' = [stats EXCEPT !.optimized = GetModelStats(doc)]
    /\ pc' = "i_done"
    /\ UNCHANGED <<inputs, decoded, doc, events, texIdx, thrown, path, result, raised>>

StatsNext == I_Inspect \/ I_InspectAgain

StatsSpec == StatsInit /\ [][StatsNext]_vars

\* C8: the triangle total the inspector reports is the sum over all
\* primitives of all meshes of floor(indexCount / 3) for an indexed
\* primitive and floor(vertexCount / 3) for an unindexed one (a primitive
\* without vertices counting for nothing).
C8_TrianglesFlooredPerPrimitive ==
    pc \in {"i_inspected", "i_done"} =>
        stats.original.triangles = TotalTrianglesPerPrimitive(doc)

----------------------------------------------------------------------------
(* The texture specification: safeTextureOptimization on bounded Documents *)

TextureList(n) ==
    [i \in 1..n |-> MkTexture(TexNames[i], "image-" \o TexNames[i],
                              IF i % 2 = 1 THEN "image/png" ELSE "image/jpeg")]

\* k materials whose slots at the positions refs hold the textures a assigns
MaterialList(k, refs, a) ==
    [m \in 1..k |-> [sl \in SlotNames |->
                       IF <<m, sl>> \in refs THEN a[<<m, sl>>] ELSE Null]]

\* the sets of at most MaxRefs slots of k materials
SlotSets(k) == { r \in SUBSET ((1..k) \X SlotNames) : Cardinality(r) <= MaxRefs }

TexInit ==
    /\ InitPass("textures")
    /\ pc = "t_start"
    /\ settings \in { MkSettings(0, tq, FALSE, 1) : tq \in {"medium", "low"} }
    /\ \E k \in 0..MaxMaterials, n \in 0..MaxTextures :
         \E refs \in SlotSets(k) :
            \E a \in [refs -> { TexNames[i] : i \in 1..n }] :
               decoded = MkDoc(1, <<>>, MaterialList(k, refs, a), TextureList(n), 0)
    /\ doc = decoded

\* the embedded-safe strategy, as called at line 56
T_Prune ==
    /\ pc = "t_start"
    /\ doc' = SafeTextureOptimization(doc)
    /\ pc' = "t_pruned"
    /\ UNCHANGED <<inputs, decoded, events, stats, texIdx, thrown, path, result, raised>>

\* the inspector on the pruned Document
T_Inspect ==
    /\ pc = "t_pruned"
    /\ stats' = [original |-> GetModelStats(decoded),
                 optimized |-> GetModelStats(doc)]
    /\ pc' = "t_done"
    /\ UNCHANGED <<inputs, decoded, doc, events, texIdx, thrown, path, result, raised>>

TexNext == T_Prune \/ T_Inspect

TexSpec == TexInit /\ [][TexNext]_vars

\* the textures some material holds in one of its five slots
ReferencedInFiveSlots(d) ==
    { id \in TextureIds(d) :
        \E m \in DOMAIN d.materials :
            \/ d.materials[m]["baseColor"] = id
            \/ d.materials[m]["normal"] = id
            \/ d.materials[m]["metallicRoughness"] = id
            \/ d.materials[m]["occlusion"] = id
            \/ d.materials[m]["emissive"] = id }

----------------------------------------------------------------------------
(* The pass specification: the settings-driven passes over every setting *)

LevelValues == 1..10
DecimationValues == 0..100

PassInit ==
    /\ InitPass("passes")
    /\ pc = "p_start"
    /\ settings \in { MkSettings(md, "high", TRUE, lv) :
                        md \in DecimationValues, lv \in LevelValues }
    /\ decoded = DocMinimal
    /\ doc = decoded

\* the geometry pass, its transform succeeding
P_Geometry ==
    /\ pc = "p_start"
    /\ doc' = ConservativeMeshOptimization(doc, settings)
    /\ pc' = "p_geometry"
    /\ UNCHANGED <<inputs, decoded, events, stats, texIdx, thrown, path, result, raised>>

\* the compression pass: the compressor succeeds, or throws and is swallowed
P_Draco ==
    /\ pc = "p_geometry"
    /\ \/ doc' = SafeDracoCompression(doc, settings)
       \/ doc' = doc
    /\ pc' = "p_done"
    /\ UNCHANGED <<inputs, decoded, events, stats, texIdx, thrown, path, result, raised>>

PassNext == P_Geometry \/ P_Draco

PassSpec == PassInit /\ [][PassNext]_vars

\* C10: a compression pass requested at level 8, 9 or 10 hands the
\* compressor the five bit-depths that level 7 gets.
C10_LevelsAboveSevenLikeSeven ==
    (pc = "p_done" /\ doc.draco # <<>> /\ settings.dracoCompression.level \in 8..10) =>
        /\ doc.draco[1] = DracoOptions(MkSettings(settings.meshDecimation,
                                                  settings.textureQuality, TRUE, 7))
        /\ doc.draco[1] = [quantizePosition |-> 10, quantizeNormal |-> 9,
                           quantizeTexcoord |-> 10, quantizeColor |-> 9,
                           quantizeGeneric |-> 9]

\* C10 witness: the compressor has been applied at requested level 10
C10_Witness ==
    /\ pc = "p_done"
    /\ settings.dracoCompression.level = 10
    /\ doc.draco # <<>>

\* the arguments of the transforms of the given name applied to d
TransformArgs(d, n) ==
    { d.transforms[i].arg : i \in { j \in DOMAIN d.transforms :
                                        d.transforms[j].name = n } }

\* C11: whenever the simplifier is applied, the ratio it is handed (in
\* thousandths) is max(300, 1000 - 7 * meshDecimation), lies between 300
\* and 1000, and so asks for the removal of at most 700 thousandths.
C11_RatioWithinBounds ==
    pc \in {"p_geometry", "p_done"} =>
        \A r \in TransformArgs(doc, "simplify") :
            /\ r = (IF 1000 - 7 * settings.meshDecimation >= 300
                    THEN 1000 - 7 * settings.meshDecimation ELSE 300)
            /\ r >= 300
            /\ r <= 1000
            /\ 1000 - r <= 700

\* C11 witness: the simplifier has been applied at the most aggressive
\* setting for which it runs
C11_Witness ==
    /\ pc = "p_geometry"
    /\ settings.meshDecimation = 79
    /\ TransformArgs(doc, "simplify") = {447}

----------------------------------------------------------------------------
(* Claims about the passes inside the two flows *)

TransformNames(d) == { d.transforms[i].name : i \in DOMAIN d.transforms }

\* the call of document.transform at line 143 has returned
GeometryPassDone(d) == "resample" \in TransformNames(d)

\* C12: in both flows weld and simplify are applied only when
\* 0 < meshDecimation < 80, and once the geometry pass has run with a
\* setting inside the band both have been applied, weld first.
C12_WeldSimplifyIffInBand ==
    (flow \in {"single", "multi"} /\ doc # NoDoc) =>
        LET md == settings.meshDecimation
            band == 0 < md /\ md < 80
        IN  /\ "weld" \in TransformNames(doc) => band
            /\ "simplify" \in TransformNames(doc) => band
            /\ (GeometryPassDone(doc) /\ band) =>
                   /\ doc.transforms[1].name = "weld"
                   /\ doc.transforms[2].name = "simplify"

\* C12 witness: the multi-file flow has returned a result for setting 79,
\* the upper end of the band, with both transforms applied
C12_Witness ==
    /\ flow = "multi"
    /\ pc = "returned"
    /\ settings.meshDecimation = 79
    /\ {"weld", "simplify"} \subseteq TransformNames(doc)

\* C13: for meshDecimation = 0 and for every meshDecimation >= 80 the
\* geometry pass is a no-op: it applies no transform and the Document is
\* as it was decoded.
C13_NoOpOutsideBand ==
    (pc = "p_geometry"
       /\ (settings.meshDecimation = 0 \/ settings.meshDecimation >= 80)) =>
        /\ doc.transforms = <<>>
        /\ doc = decoded

----------------------------------------------------------------------------
(* The validator's specification: isValidGLB on every short buffer *)

\* the byte values the buffers are made of: the four of "glTF", zero, and
\* the largest whose place in the top byte keeps the 32-bit read below 2^31
HeaderBytes == {0, 70, 84, 103, 108, 127}

ValidInit ==
    /\ flow = "validate"
    /\ pc = "v_start"
    /\ settings = MkSettings(0, "high", FALSE, 1)
    /\ \E n \in 0..MaxHeaderBytes : file \in [1..n -> HeaderBytes]
    /\ texFiles = <<>>
    /\ InitInvocation

\* lines 110-112: new DataView(buffer), view.getUint32(0, true); the read
\* throws a RangeError when the view holds fewer than four bytes
V_ReadMagic ==
    /\ pc = "v_start"
    /\ IF Len(file) < 4
       THEN /\ pc' = "v_catch"
            /\ thrown' = "RangeError"
            /\ UNCHANGED result
       ELSE /\ pc' = "v_compare"
            /\ result' = [kind |-> "magic", value |-> Uint32LE(file)]
            /\ UNCHANGED thrown
    /\ UNCHANGED <<inputs, decoded, doc, events, stats, texIdx, path, raised>>

\* line 113: return magic === 0x46546C67
V_Compare ==
    /\ pc = "v_compare"
    /\ result' = [kind |-> "boolean", value |-> (result.value = GLBMagic)]
    /\ pc' = "returned"
    /\ UNCHANGED <<inputs, decoded, doc, events, stats, texIdx, thrown, path, raised>>

\* lines 114-116: catch { return false }
V_Catch ==
    /\ pc = "v_catch"
    /\ result' = [kind |-> "boolean", value |-> FALSE]
    /\ pc' = "returned"
    /\ UNCHANGED <<inputs, decoded, doc, events, stats, texIdx, thrown, path, raised>>

ValidNext == V_ReadMagic \/ V_Compare \/ V_Catch

ValidSpec == ValidInit /\ [][ValidNext]_vars

\* a buffer of at least four bytes whose first four, read little-endian,
\* are 0x46546C67
HoldsMagic(b) ==
    /\ Len(b) >= 4
    /\ b[1] + 256 * b[2] + 65536 * b[3] + 16777216 * b[4]
          = 70 * 16777216 + 84 * 65536 + 108 * 256 + 103

\* C14: the validator raises nothing and answers true exactly for the
\* buffers of at least four bytes whose first four bytes, read as a
\* little-endian unsigned 32-bit integer, are 0x46546C67; the validator
\* the flows call gives the same answer.
C14_ValidatorExact ==
    /\ pc # "raised"
    /\ raised = "none"
    /\ pc = "returned" =>
          /\ result.kind = "boolean"
          /\ result.value = HoldsMagic(file)
          /\ IsValidGLB(file) = HoldsMagic(file)

\* C14 witness: a five-byte buffer that starts with the magic was accepted
C14_Witness ==
    /\ pc = "returned"
    /\ file = <<103, 108, 84, 70, 0>>
    /\ result.kind = "boolean"
    /\ result.value

----------------------------------------------------------------------------
(* Claims about the results *)

\* C15: every result the Safe Fallback produces carries the input bytes
\* unchanged as its optimized bytes, whatever the settings, and both of its
\* model statistics hold the text 'N/A' in place of every number.
C15_FallbackKeepsBytes ==
    (pc = "returned" /\ path = "fallback") =>
        /\ result.optimizedBlob = file
        /\ Len(result.optimizedBlob) = result.stats.originalSize
        /\ DOMAIN result.modelInfo = {"original", "optimized"}
        /\ \A w \in {"original", "optimized"} :
              /\ DOMAIN result.modelInfo[w] = {"vertices", "triangles", "textures"}
              /\ \A k \in {"vertices", "triangles", "textures"} :
                    result.modelInfo[w][k] = "N/A"

\* C15 witness: under the most aggressive settings the fallback returned a
\* ten-byte input whole while reporting a smaller size figure
C15_Witness ==
    /\ pc = "returned"
    /\ path = "fallback"
    /\ settings.meshDecimation = 80
    /\ settings.textureQuality = "low"
    /\ Len(file) = 10
    /\ result.stats.optimizedSize = 8
    /\ Len(result.optimizedBlob) = 10

\* C16: the multi-file flow returns a result only for encoded bytes that
\* pass the format validator; bytes that fail it end the call with an
\* error instead of a result.
C16_MultiOutputChecked ==
    (flow = "multi" /\ pc = "returned") => IsValidGLB(result.optimizedBlob)

\* the fields of a ModelStats
ModelStatsFields ==
    {"scenes", "meshes", "materials", "textures", "animations", "vertices",
     "triangles"}

\* C17: every result either entry point returns has optimized bytes, size
\* statistics and a modelInfo of two ModelStats: original, taken from the
\* Document as decoded, and optimized, taken from the Document after all
\* passes.
C17_ResultsCarryBothStats ==
    (flow \in {"single", "multi"} /\ pc = "returned") =>
        /\ DOMAIN result = {"optimizedBlob", "stats", "modelInfo"}
        /\ DOMAIN result.stats = {"originalSize", "optimizedSize", "reduction"}
        /\ DOMAIN result.modelInfo = {"original", "optimized"}
        /\ DOMAIN result.modelInfo.original = ModelStatsFields
        /\ DOMAIN result.modelInfo.optimized = ModelStatsFields
        /\ result.modelInfo.original = GetModelStats(decoded)
        /\ result.modelInfo.optimized = GetModelStats(doc)

\* C18: a valid container that decodes to a Document without textures,
\* optimized with meshDecimation = 0, textureQuality = high and the
\* compressor disabled, gets a result with reduction = 0 and an optimized
\* triangle count equal to the original one.
C18_UntouchedModelReportsNoReduction ==
    (/\ flow = "single"
     /\ IsValidGLB(file)
     /\ settings.meshDecimation = 0
     /\ settings.textureQuality = "high"
     /\ ~settings.dracoCompression.enabled
     /\ pc = "returned"
     /\ decoded # NoDoc
     /\ decoded.textures = <<>>) =>
        /\ result.stats.reduction = 0
        /\ result.modelInfo.optimized.triangles
              = result.modelInfo.original.triangles

\* C20: in the single-file flow with textureQuality = high the Document
\* handed to the encoder holds the textures of the decoded Document, all
\* of them, the ones no material references too.
C20_HighQualityKeepsTextures ==
    (flow = "single" /\ settings.textureQuality = "high" /\ pc = "s_encode") =>
        /\ TextureIds(doc) = TextureIds(decoded)
        /\ Len(doc.textures) = Len(decoded.textures)

----------------------------------------------------------------------------
(* Claims about the external-texture strategy and the compression pass *)

----------------------------------------------------------------------------
(* The resize specification: one round of the external-texture loop on an
   image of given width and height, lines 402-437 *)

\* lines 411-412
MaxSizeOf(tq) ==
    IF tq = "high" THEN 2048 ELSE IF tq = "medium" THEN 1024 ELSE 512

\* the smallest power of two that is at least n
RECURSIVE Pow2AtLeast(_)
Pow2AtLeast(n) == IF n <= 1 THEN 1 ELSE 2 * Pow2AtLeast((n + 1) \div 2)

\* the largest power of two below n, for n >= 2
RECURSIVE Pow2Below(_)
Pow2Below(n) == IF n <= 2 THEN 1 ELSE 2 * Pow2Below((n + 1) \div 2)

\* 2^k modulo n
RECURSIVE TwoPowMod(_, _)
TwoPowMod(k, n) == IF k = 0 THEN 1 % n ELSE (2 * TwoPowMod(k - 1, n)) % n

\* Math.floor(d * scale) of lines 416-417, for side d of an image whose
\* longer side is l, scale being the double Math.min(m / w, m / h, 1).
\* scale is 1 when l <= m. Otherwise scale is the double nearest to m / l
\* (m is a power of two), off from m / l by the remainder r of 2^52 * p by
\* l, p the power of two at or above l. The product rounds to a double
\* below the exact quotient n = d * m / l only when n is an integer, the
\* quotient was rounded down (0 < 2r < l) and the shortfall is more than
\* half the gap between the doubles below n; the floor is then n - 1.
ScaledSide(d, l, m) ==
    IF l <= m THEN d
    ELSE LET n == (d * m) \div l
             p == Pow2AtLeast(l)
             r == (TwoPowMod(52, l) * p) % l
             short == IF n = 1 THEN 4 * r > p
                      ELSE 2 * n * r > Pow2Below(n) * p
         IN  IF (d * m) % l = 0 /\ n > 0 /\ r # 0 /\ 2 * r < l /\ short
             THEN n - 1
             ELSE n

\* lines 414-417: canvas.width and canvas.height
CanvasSize(w, h, tq) ==
    LET l == Max(w, h)
    IN  [width  |-> ScaledSide(w, l, MaxSizeOf(tq)),
         height |-> ScaledSide(h, l, MaxSizeOf(tq))]

\* widths and heights of the images: around each ceiling, and sides whose
\* quotient by the longer side is a whole number
SampleSides ==
    {1, 161, 256, 512, 513, 561, 644, 1024, 1025, 1122, 2048, 2049, 2215,
     3000, 4096}

ResizeInit ==
    /\ InitPass("resize")
    /\ pc = "r_start"
    /\ settings \in { MkSettings(0, tq, FALSE, 1) : tq \in TextureQualities }
    /\ \E w \in SampleSides, h \in SampleSides :
          decoded = MkDoc(1, <<>>, <<>>,
                          << MkTexture("t1", [width |-> w, height |-> h],
                                       "image/png") >>, 0)
    /\ doc = decoded

\* lines 403-419: canvas, context, bitmap, size, draw; a call that throws
\* ends the round in the catch of line 435, a null context in the continue
\* of line 405
R_Draw ==
    /\ pc = "r_start"
    /\ \/ /\ result' = [kind |-> "canvas",
                         size |-> CanvasSize(doc.textures[1].image.width,
                                             doc.textures[1].image.height,
                                             settings.textureQuality)]
          /\ pc' = "r_drawn"
       \/ /\ pc' = "r_done"
          /\ UNCHANGED result
    /\ UNCHANGED <<inputs, decoded, doc, events, stats, texIdx, thrown, path, raised>>

\* lines 421-433: toBlob; the bytes of the canvas replace the image, or the
\* blob is null, or the promise chain of line 424 fails and the round
\* never ends
R_Encode ==
    /\ pc = "r_drawn"
    /\ \/ /\ doc' = [doc EXCEPT !.textures[1] =
                        [@ EXCEPT !.image = result.size, !.mime = "image/jpeg"]]
          /\ pc' = "r_done"
       \/ /\ pc' = "r_done"
          /\ UNCHANGED doc
       \/ /\ pc' = "r_awaiting"
          /\ UNCHANGED doc
    /\ UNCHANGED <<inputs, decoded, events, stats, texIdx, thrown, path, result, raised>>

ResizeNext == R_Draw \/ R_Encode

ResizeSpec == ResizeInit /\ [][ResizeNext]_vars

C23_QuantizationBits ==
    (pc = "p_done" /\ doc.draco # <<>>) =>
        LET lv == settings.dracoCompression.level
            eff == IF lv <= 7 THEN lv ELSE 7
            bits(floor) == IF 16 - eff >= floor THEN 16 - eff ELSE floor
            q == doc.draco[1]
        IN  /\ lv \in 1..10
            /\ q.quantizePosition = bits(10) /\ q.quantizePosition >= 10
            /\ q.quantizeTexcoord = bits(10) /\ q.quantizeTexcoord >= 10
            /\ q.quantizeNormal = bits(8) /\ q.quantizeNormal >= 8
            /\ q.quantizeColor = bits(8) /\ q.quantizeColor >= 8
            /\ q.quantizeGeneric = bits(8) /\ q.quantizeGeneric >= 8

\* C23 witness: at level 7 the floor of 10 bits is what positions get,
\* while normals get the 9 bits of 16 - 7
C23_Witness ==
    /\ pc = "p_done"
    /\ settings.dracoCompression.level = 7
    /\ doc.draco # <<>>
    /\ doc.draco[1].quantizePosition = 10
    /\ doc.draco[1].quantizeNormal = 9

\* C24: whatever the compressor does, throwing included, the step out of
\* the compression pass leads to the cleanup of the same flow: the flow
\* catches no error and raises none, and the Document is either compressed
\* or exactly as it was before the pass, without compression.
C24_CompressorFailureAbsorbed ==
    [][(pc \in {"s_draco", "m_draco"}) =>
          /\ pc' = (IF pc = "s_draco" THEN "s_cleanup" ELSE "m_cleanup")
          /\ thrown' = thrown
          /\ raised' = raised
          /\ path' = path
          /\ \/ doc' = doc /\ doc.draco = <<>>
             \/ /\ settings.dracoCompression.enabled
                /\ doc'.draco # <<>>
      ]_vars

\* C24 witness: with compression enabled the single-file flow has returned
\* the result of its normal path for a Document that went through cleanup
\* and carries no compression: the compressor threw and was absorbed
C24_Witness ==
    /\ flow = "single"
    /\ settings.dracoCompression.enabled
    /\ pc = "returned"
    /\ path = "normal"
    /\ thrown = "none"
    /\ doc.draco = <<>>
    /\ "draco" \notin TransformNames(doc)
    /\ "prune" \in TransformNames(doc)

----------------------------------------------------------------------------
(* Claims about the order of the steps *)

\* C25: in the single-file and in the analysis-only entry point the codec
\* is about to decode, or has decoded, only a buffer that passes the format
\* check; for a buffer that fails it the invocation leaves its normal path
\* at the check and never builds a result on it.
C25_NoDecodeOfInvalidBuffer ==
    flow \in {"single", "analyze"} =>
        /\ pc \in {"s_decode", "a_decode"} => HoldsMagic(file)
        /\ decoded # NoDoc => HoldsMagic(file)
        /\ ~HoldsMagic(file) =>
              /\ pc \in {"s_start", "a_start", "a_catch", "returned"} \cup FallbackPcs
              /\ path # "normal"
              /\ thrown \in {"none", "InvalidFormat"}

\* C25 witness: the analysis-only entry point has answered a buffer of
\* more than four bytes that fails the check, without any decode
C25_Witness ==
    /\ flow = "analyze"
    /\ Len(file) > 4
    /\ ~HoldsMagic(file)
    /\ pc = "returned"
    /\ thrown = "InvalidFormat"
    /\ decoded = NoDoc

\* the percentages handed to the progress callback so far
Percentages == [i \in DOMAIN events |-> events[i][1]]

\* C26: a single-file invocation that returned the result of its normal
\* path reported exactly 10, 20, 30, 50, 60, 75, 80, 90, 95, 100, in this
\* order and each once, when the compression pass is enabled, and the
\* same without 80 when it is disabled.
C26_NormalPathCheckpoints ==
    (flow = "single" /\ pc = "returned" /\ path = "normal") =>
        Percentages = (IF settings.dracoCompression.enabled
                       THEN <<10, 20, 30, 50, 60, 75, 80, 90, 95, 100>>
                       ELSE <<10, 20, 30, 50, 60, 75, 90, 95, 100>>)

\* C26 witness: an invocation with the compression pass disabled has
\* returned on the normal path after nine callbacks
C26_Witness ==
    /\ flow = "single"
    /\ pc = "returned"
    /\ path = "normal"
    /\ ~settings.dracoCompression.enabled
    /\ Len(events) = 9
    /\ events[7] = <<90, "finalizing">>

\* the names of the transforms applied to d, in the order of application
TransformOrder(d) == [i \in DOMAIN d.transforms |-> d.transforms[i].name]

\* C27: for every meshDecimation from 0 to 100 the geometry pass applies
\* resample; inside the band what it applies is weld, simplify, resample,
\* in this order, and outside the band resample alone.
C27_ResampleAlwaysAndLast ==
    pc \in {"p_geometry", "p_done"} =>
        LET md == settings.meshDecimation
            order == TransformOrder(doc)
        IN  IF 0 < md /\ md < 80
            THEN /\ Len(order) >= 3
                 /\ SubSeq(order, 1, 3) = <<"weld", "simplify", "resample">>
            ELSE /\ Len(order) >= 1
                 /\ order[1] = "resample"

\* C27 witness: at meshDecimation 40 the pass has applied its three
\* transforms
C27_Witness ==
    /\ pc = "p_geometry"
    /\ settings.meshDecimation = 40
    /\ TransformOrder(doc) = <<"weld", "simplify", "resample">>

----------------------------------------------------------------------------
(* The application: AppContent of App.tsx, with updateOptimizationStats of
   the authentication provider (README.md 434-459) *)

\* JavaScript values: numbers (NaN among them), strings, undefined
JSNum(n) == [type |-> "number", nan |-> FALSE, val |-> n]
JSNaN == [type |-> "number", nan |-> TRUE, val |-> 0]
JSStr(t) == [type |-> "string", text |-> t]
JSUndefined == [type |-> "undefined"]

\* the conversion the operator - applies to an operand: a string that is
\* no numeral, and undefined, become NaN
ToNumber(v) == IF v.type = "number" THEN v ELSE JSNaN

\* what || and if take for true
Truthy(v) ==
    CASE v.type = "number" -> ~v.nan /\ v.val # 0
      [] v.type = "string" -> v.text # ""
      [] v.type = "undefined" -> FALSE

\* a || b
JSOr(a, b) == IF Truthy(a) THEN a ELSE b

\* a - b
JSSub(a, b) ==
    LET x == ToNumber(a)
        y == ToNumber(b)
    IN  IF x.nan \/ y.nan THEN JSNaN ELSE JSNum(x.val - y.val)

\* a + b on numbers
JSAdd(a, b) == IF a.nan \/ b.nan THEN JSNaN ELSE JSNum(a.val + b.val)

\* Math.max(0, a): NaN when a is NaN
JSMax0(a) ==
    LET x == ToNumber(a)
    IN  IF x.nan THEN JSNaN ELSE JSNum(Max(0, x.val))

NoFile == [kind |-> "nofile"]

\* App.tsx 22-27: the settings the component starts with and resets to
DefaultSettings == MkSettings(30, "medium", TRUE, 5)

\* App.tsx 28-32, 146-150
IdleState == [isProcessing |-> FALSE, progress |-> 0, stage |-> "idle"]

\* README.md 331-337
NoOptimizations ==
    [totalOptimizations |-> 0, totalPolygonsReduced |-> JSNum(0),
     totalTexturesOptimized |-> JSNum(0), totalSizeSaved |-> JSNum(0),
     averageReduction |-> 0]

\* the bytes of the file the user uploads
UploadBytes == MagicBytes \o Zeros(MaxFileLen - 4)

\* App.tsx 37-46: the FileData of an upload; polyCount and textureCount are
\* what analyzeGLB reported, or a random number where that is 0
UploadedFiles ==
    { [bytes |-> UploadBytes, size |-> Len(UploadBytes),
       polyCount |-> JSNum(GetModelStats(d).triangles),
       textureCount |-> JSNum(IF GetModelStats(d).textures # 0
                               THEN GetModelStats(d).textures ELSE rnd),
       hasTextureFiles |-> m] :
        d \in SampleDocs, rnd \in {1, 10}, m \in BOOLEAN }

\* the callbacks an optimization makes before it ends, cut down to two
RunCallbacks == << <<10, "analyzing">>, <<90, "finalizing">> >>

\* what the optimizer may answer for the upload up under settings s: the
\* multi-file flow when texture files came with it (App.tsx 66-78), the
\* single-file flow otherwise (80-90), on its normal path or its fallback
ResultsOf(up, s) ==
    LET outs == { MagicBytes \o Zeros(2), MagicBytes \o Zeros(MaxFileLen - 2) }
    IN  IF up.hasTextureFiles
        THEN { MultiResult(up.bytes, <<3>>, out, GetModelStats(Cleanup(d))) :
                 out \in outs, d \in SampleDocs }
        ELSE { NormalResult(up.bytes, out, GetModelStats(d),
                            GetModelStats(Cleanup(d))) :
                 out \in outs, d \in SampleDocs }
             \cup { FallbackResult(up.bytes, s) }

\* result.modelInfo?.optimized?.[k]
OptimizedField(res, k) ==
    IF "optimized" \notin DOMAIN res.modelInfo THEN JSUndefined
    ELSE IF res.modelInfo.optimized = NAStats THEN JSStr("N/A")
    ELSE JSNum(res.modelInfo.optimized[k])

\* App.tsx 93-99: the FileData of the optimized file
OptimizedFileData(up, s, res) ==
    [bytes |-> res.optimizedBlob,
     size |-> res.stats.optimizedSize,
     polyCount |->
        JSOr(OptimizedField(res, "triangles"),
             JSNum((up.polyCount.val * (100 - s.meshDecimation)) \div 100)),
     textureCount |->
        JSOr(OptimizedField(res, "textures"),
             JSNum((up.textureCount.val
                     * (IF s.textureQuality = "high" THEN 10
                        ELSE IF s.textureQuality = "medium" THEN 7 ELSE 4))
                   \div 10)),
     hasTextureFiles |-> up.hasTextureFiles]

\* App.tsx 110-119: the argument of updateOptimizationStats
NewStats(up, opt, res) ==
    [polygonsReduced |-> JSMax0(JSSub(up.polyCount, opt.polyCount)),
     texturesOptimized |-> JSMax0(JSSub(up.textureCount, opt.textureCount)),
     sizeSaved |-> JSMax0(JSSub(JSNum(up.size), JSNum(opt.size))),
     reductionPercentage |-> res.stats.reduction]

\* README.md 434-459, for a logged-in user
updateOptimizationStats(prevStats, newStats) ==
    [totalOptimizations |-> prevStats.totalOptimizations + 1,
     totalPolygonsReduced |->
        JSAdd(prevStats.totalPolygonsReduced, newStats.polygonsReduced),
     totalTexturesOptimized |->
        JSAdd(prevStats.totalTexturesOptimized, newStats.texturesOptimized),
     totalSizeSaved |-> JSAdd(prevStats.totalSizeSaved, newStats.sizeSaved),
     averageReduction |->
        RoundDiv(prevStats.averageReduction * prevStats.totalOptimizations
                   + newStats.reductionPercentage,
                 prevStats.totalOptimizations + 1)]

appFrame == <<pc, flow, file, texFiles, decoded, doc, events, stats, texIdx,
              thrown, path, result, raised, auth>>

\* runs: the calls of handleOptimize that have not ended, each with the
\* uploadedFile and settings its closure holds and the callbacks it has yet
\* to make; started, resetPending and updates record what has happened
AppInit ==
    /\ flow = "app"
    /\ pc = "app"
    /\ file = <<>>
    /\ texFiles = <<>>
    /\ settings = DefaultSettings
    /\ decoded = NoDoc
    /\ doc = NoDoc
    /\ events = <<>>
    /\ stats = [original |-> NoStats, optimized |-> NoStats]
    /\ texIdx = 0
    /\ thrown = "none"
    /\ path = "none"
    /\ result = NoResult
    /\ raised = "none"
    /\ auth = NoAuth
    /\ app = [uploadedFile |-> NoFile, optimizedFile |-> NoFile,
              processingState |-> IdleState, runs |-> {}, started |-> 0,
              resetPending |-> FALSE, optimizationStats |-> NoOptimizations,
              updates |-> 0]

\* App.tsx 34-52; the upload area is on the page only while there is no
\* uploaded file (167-174)
handleFileUpload ==
    /\ app.uploadedFile = NoFile
    /\ \E fd \in UploadedFiles :
          app' = [app EXCEPT !.uploadedFile = fd, !.optimizedFile = NoFile]
    /\ UNCHANGED <<settings, appFrame>>

\* App.tsx 54-61 up to the first await; the button is on the page while
\* there is an uploaded file and is disabled while isProcessing
\* (FileUpload.tsx 436-438)
handleOptimize ==
    /\ app.uploadedFile # NoFile
    /\ ~app.processingState.isProcessing
    /\ app.started < MaxOptimizations
    /\ app' = [app EXCEPT
                 !.processingState = [isProcessing |-> TRUE, progress |-> 0,
                                      stage |-> "analyzing"],
                 !.started = @ + 1,
                 !.resetPending = FALSE,
                 !.runs = @ \cup {[id |-> app.started + 1,
                                   file |-> app.uploadedFile,
                                   settings |-> settings,
                                   left |-> RunCallbacks]}]
    /\ UNCHANGED <<settings, appFrame>>

\* App.tsx 71-77, 83-89: a progress callback of a call that has not ended
OnProgress ==
    /\ \E r \in app.runs :
          /\ r.left # <<>>
          /\ app' = [app EXCEPT
                       !.processingState =
                          [isProcessing |-> TRUE, progress |-> Head(r.left)[1],
                           stage |-> Head(r.left)[2]],
                       !.runs = (@ \ {r})
                                  \cup {[r EXCEPT !.left = Tail(r.left)]}]
    /\ UNCHANGED <<settings, appFrame>>

\* App.tsx 93-119: the optimizer has answered
OptimizeResolved ==
    /\ \E r \in app.runs :
          /\ r.left = <<>>
          /\ \E res \in ResultsOf(r.file, r.settings) :
                LET opt == OptimizedFileData(r.file, r.settings, res)
                IN  app' = [app EXCEPT
                              !.optimizedFile = opt,
                              !.processingState =
                                 [isProcessing |-> FALSE, progress |-> 100,
                                  stage |-> "completed"],
                              !.optimizationStats =
                                 updateOptimizationStats(@, NewStats(r.file, opt, res)),
                              !.updates = @ + 1,
                              !.runs = @ \ {r}]
    /\ UNCHANGED <<settings, appFrame>>

\* App.tsx 121-131: the optimizer has raised, which only the multi-file
\* flow does
OptimizeRejected ==
    /\ \E r \in app.runs :
          /\ r.file.hasTextureFiles
          /\ app' = [app EXCEPT !.processingState = IdleState,
                                !.runs = @ \ {r}]
    /\ UNCHANGED <<settings, appFrame>>

\* App.tsx 141-157; the button is on the page while there is an uploaded
\* file and is never disabled (FileUpload.tsx 453-461)
handleReset ==
    /\ app.uploadedFile # NoFile
    /\ app' = [app EXCEPT !.uploadedFile = NoFile, !.optimizedFile = NoFile,
                          !.processingState = IdleState,
                          !.resetPending = TRUE]
    /\ settings' = DefaultSettings
    /\ UNCHANGED appFrame

AppNext ==
    \/ handleFileUpload \/ handleOptimize \/ OnProgress
    \/ OptimizeResolved \/ OptimizeRejected \/ handleReset

AppSpec == AppInit /\ [][AppNext]_vars

\* C28: in every state of the application an optimized file is present
\* only while an uploaded file is, and from a reset until the next start
\* of an optimization the processing state is idle, with isProcessing
\* false and progress 0.
C28_ResetLeavesAppIdle ==
    /\ app.optimizedFile # NoFile => app.uploadedFile # NoFile
    /\ app.resetPending =>
          /\ ~app.processingState.isProcessing
          /\ app.processingState.progress = 0
          /\ app.processingState.stage = "idle"

\* a cumulative statistic that is a number and not negative
NonNegativeNumber(v) == v.type = "number" /\ ~v.nan /\ v.val >= 0

\* v is a number at least as large as the number u
NotBelow(v, u) == ~u.nan /\ ~v.nan /\ v.val >= u.val

\* C29: after every sequence of optimizations each cumulative statistic is
\* a non-negative number, totalOptimizations is the number of updates, and
\* no update makes a cumulative statistic smaller.
C29_CumulativeStatsGrow ==
    /\ [](/\ NonNegativeNumber(app.optimizationStats.totalPolygonsReduced)
          /\ NonNegativeNumber(app.optimizationStats.totalTexturesOptimized)
          /\ NonNegativeNumber(app.optimizationStats.totalSizeSaved)
          /\ app.optimizationStats.totalOptimizations = app.updates)
    /\ [][/\ NotBelow(app'.optimizationStats.totalPolygonsReduced,
                      app.optimizationStats.totalPolygonsReduced)
          /\ NotBelow(app'.optimizationStats.totalTexturesOptimized,
                      app.optimizationStats.totalTexturesOptimized)
          /\ NotBelow(app'.optimizationStats.totalSizeSaved,
                      app.optimizationStats.totalSizeSaved)]_vars

----------------------------------------------------------------------------
(* The authentication provider: AuthProvider, README.md 328-575 *)

\* localStorage.getItem of a key that is not there, a URL parameter that is
\* not there, and the user before anyone has logged in: null in the code
JSNull == "null"

\* what Math.random().toString(36).substring(2, 15) may give at login
OAuthStates == {"s1", "s2"}

\* the code and state parameters a page load may carry
UrlCodes == {JSNull, "c1"}
UrlStates == {JSNull} \cup OAuthStates

\* the user GitHub answers with, and the user of lines 541-552
GitHubUser == "octocat"
DemoUser == "demo_user"

EmptyStorage ==
    [github_user |-> JSNull, github_token |-> JSNull, oauth_state |-> JSNull]

\* what localStorage may hold when the page is first opened
InitialStorages ==
    { EmptyStorage,
      [EmptyStorage EXCEPT !.oauth_state = "s1"],
      [github_user |-> GitHubUser, github_token |-> "gh_token",
       oauth_state |-> JSNull],
      [github_user |-> DemoUser, github_token |-> "demo_token",
       oauth_state |-> JSNull] }

\* the users whose optimization_stats_<id> key holds statistics
SavedStatsSets == { {}, {GitHubUser}, {DemoUser} }

\* a mount of the provider: lines 329-337 and the effect of 342-344
Mounted(storage, savedStats, code, state) ==
    [kind |-> "auth", pc |-> "init", user |-> JSNull, isLoading |-> TRUE,
     optimizationStats |-> "zero", storage |-> storage,
     savedStats |-> savedStats, url |-> [code |-> code, state |-> state]]

\* lines 400-409
loadOptimizationStats(a, userId) ==
    IF userId \in a.savedStats THEN [a EXCEPT !.optimizationStats = "saved"]
    ELSE a

\* lines 393-398
clearAuthData(a) == [a EXCEPT !.storage = EmptyStorage, !.user = JSNull]

\* lines 539-565
simulateSuccessfulAuth(a) ==
    LET stored == [a EXCEPT !.storage = [github_user |-> DemoUser,
                                         github_token |-> "demo_token",
                                         oauth_state |-> JSNull],
                            !.user = DemoUser]
        loaded == loadOptimizationStats(stored, DemoUser)
    IN  [loaded EXCEPT !.url = [code |-> JSNull, state |-> JSNull]]

\* the two finally blocks, lines 533-535 and 388-390, that end a callback
Settled(a) == [a EXCEPT !.isLoading = FALSE, !.pc = "ready"]

\* lines 461-484 and 529-536: handleOAuthCallback up to its first fetch
handleOAuthCallback(a) ==
    IF a.url.state # a.storage.oauth_state
    THEN Settled(simulateSuccessfulAuth([a EXCEPT !.isLoading = TRUE]))
    ELSE [a EXCEPT !.isLoading = TRUE, !.pc = "h_token"]

authFrame == <<pc, flow, file, texFiles, settings, decoded, doc, events,
               stats, texIdx, thrown, path, result, raised, app>>

AuthInit ==
    /\ flow = "auth"
    /\ pc = "auth"
    /\ file = <<>>
    /\ texFiles = <<>>
    /\ settings = DefaultSettings
    /\ decoded = NoDoc
    /\ doc = NoDoc
    /\ events = <<>>
    /\ stats = [original |-> NoStats, optimized |-> NoStats]
    /\ texIdx = 0
    /\ thrown = "none"
    /\ path = "none"
    /\ result = NoResult
    /\ raised = "none"
    /\ app = NoApp
    /\ \E storage \in InitialStorages, savedStats \in SavedStatsSets,
          code \in UrlCodes, state \in UrlStates :
          auth = Mounted(storage, savedStats, code, state)

\* lines 346-352: initializeAuth up to the fetch that validates the token
I_Start ==
    /\ flow = "auth"
    /\ auth.pc = "init"
    /\ auth' = [auth EXCEPT !.pc =
                  IF auth.storage.github_user # JSNull
                     /\ auth.storage.github_token # JSNull
                  THEN "i_validate" ELSE "i_url"]
    /\ UNCHANGED authFrame

\* lines 355-374: the answer to the validating fetch
I_Validate ==
    /\ flow = "auth"
    /\ auth.pc = "i_validate"
    /\ \E outcome \in {"ok", "notok", "throw"} :
          auth' = [(IF outcome = "ok"
                    THEN loadOptimizationStats([auth EXCEPT !.user = GitHubUser],
                                               GitHubUser)
                    ELSE clearAuthData(auth))
                   EXCEPT !.pc = "i_url"]
    /\ UNCHANGED authFrame

\* lines 377-390: `user` is the null of the render the effect ran in, so a
\* code in the URL always reaches handleOAuthCallback
I_Url ==
    /\ flow = "auth"
    /\ auth.pc = "i_url"
    /\ auth' = IF auth.url.code # JSNull THEN handleOAuthCallback(auth)
               ELSE Settled(auth)
    /\ UNCHANGED authFrame

\* lines 473-498 and 525-536: the answer to the token exchange
H_Token ==
    /\ flow = "auth"
    /\ auth.pc = "h_token"
    /\ \E outcome \in {"token", "notok", "error", "empty", "throw"} :
          auth' = IF outcome = "token" THEN [auth EXCEPT !.pc = "h_user"]
                  ELSE Settled(simulateSuccessfulAuth(auth))
    /\ UNCHANGED authFrame

\* lines 499-536: the answer to the fetch of the user
H_User ==
    /\ flow = "auth"
    /\ auth.pc = "h_user"
    /\ \E outcome \in {"ok", "notok", "throw"} :
          auth' =
            IF outcome = "ok"
            THEN Settled([loadOptimizationStats(
                            [auth EXCEPT
                               !.storage = [github_user |-> GitHubUser,
                                            github_token |-> "gh_token",
                                            oauth_state |-> JSNull],
                               !.user = GitHubUser],
                            GitHubUser)
                          EXCEPT !.url = [code |-> JSNull, state |-> JSNull]])
            ELSE Settled(simulateSuccessfulAuth(auth))
    /\ UNCHANGED authFrame

\* lines 411-417: the browser leaves for GitHub
login ==
    /\ flow = "auth"
    /\ auth.pc = "ready"
    /\ auth.user = JSNull
    /\ \E state \in OAuthStates :
          auth' = [auth EXCEPT !.storage.oauth_state = state, !.pc = "away"]
    /\ UNCHANGED authFrame

\* lines 419-432: the reload mounts the provider again at '/'
logout ==
    /\ flow = "auth"
    /\ auth.pc = "ready"
    /\ auth.user # JSNull
    /\ auth' = Mounted(EmptyStorage, auth.savedStats, JSNull, JSNull)
    /\ UNCHANGED authFrame

\* the browser opens the application at a URL: GitHub's redirect after a
\* login, or any link that names the application; lines 329-344
Navigate ==
    /\ flow = "auth"
    /\ auth.pc \in {"ready", "away"}
    /\ \E code \in UrlCodes, state \in UrlStates :
          auth' = Mounted(auth.storage, auth.savedStats, code, state)
    /\ UNCHANGED authFrame

AuthNext ==
    \/ I_Start
    \/ I_Validate
    \/ I_Url
    \/ H_Token
    \/ H_User
    \/ login
    \/ logout
    \/ Navigate

AuthSpec == AuthInit /\ [][AuthNext]_vars

----------------------------------------------------------------------------
(* Claims about the authentication provider *)

\* initializeAuth is about to hand handleOAuthCallback a state that is not
\* the one in localStorage
MismatchedCallback ==
    /\ flow = "auth"
    /\ auth.pc = "i_url"
    /\ auth.url.code # JSNull
    /\ auth.url.state # auth.storage.oauth_state

\* C30: a callback whose state parameter differs from the stored state
\* leaves the user, the stored user and the stored token as they were: no
\* user is set and no user or token is stored by it.
C30_MismatchedCallbackStoresNothing ==
    [][MismatchedCallback =>
          /\ auth'.user = auth.user
          /\ auth'.storage.github_user = auth.storage.github_user
          /\ auth'.storage.github_token = auth.storage.github_token]_vars

====
